---- MODULE Spec2Model ----
(***************************************************************************)
(* Waterfall decomposition orchestrator (algo.py): AlgorithmParameters,    *)
(* BaseAlgorithm.__init__, __apply_and_save_block, correct_facts,          *)
(* __remove_unnecessary_dimensions and run.                                *)
(*                                                                         *)
(* ratio_to_initial and the scaled contributions are binary64 floats,     *)
(* each operation rounded as Python rounds it; the measures of the fact    *)
(* rows are integers, which binary64 sums hold without rounding.           *)
(***************************************************************************)
EXTENDS Integers, Sequences, FiniteSets, TLC

\* ------------------------------------------------------------------ bounds
\* largest max_block_number a caller passes
MaxBlockNumber == 2
\* longest list of pre-selected blocks a caller passes
MaxPreSelected == 2
\* number of times the caller calls run() on one instance
MaxRuns == 2

\* ------------------------------------------------------- enumerated values
\* CORRECT_MODES: the only declared value is 'DEL' (MUL is a TODO)
CORRECT_MODES == {"DEL"}
\* CORRECT_MODES.default
CORRECT_MODES_default == "DEL"
\* ALGO_NAMES
ALGO_NAMES == {"TD", "REP"}
\* measures.MARGIN_TYPES (collaborator)
MARGIN_TYPES == {"GROSS"}

\* ------------------------------------------------------------- fact rows
\* The universe of fact rows: dimension columns Region and Product, and
\* the four aggregated measures of a row.
Facts ==
  << [Region |-> "EU", Product |-> "W", cur_revenue |-> 1, ref_revenue |-> 1,
      cur_profit |-> 1, ref_profit |-> 0],
     [Region |-> "EU", Product |-> "G", cur_revenue |-> 2, ref_revenue |-> 3,
      cur_profit |-> 0, ref_profit |-> 1],
     [Region |-> "US", Product |-> "W", cur_revenue |-> 3, ref_revenue |-> 2,
      cur_profit |-> 2, ref_profit |-> 1],
     [Region |-> "US", Product |-> "G", cur_revenue |-> 4, ref_revenue |-> 4,
      cur_profit |-> 1, ref_profit |-> 2],
     [Region |-> "US", Product |-> "G", cur_revenue |-> 0 - 7, ref_revenue |-> 1,
      cur_profit |-> 0 - 1, ref_profit |-> 0] >>

\* fact tables handed to BaseAlgorithm (sets of row numbers of Facts)
InitialTables == { {1, 2, 3, 4}, {1, 2}, {3, 5} }

\* input_parameters.dims lists a caller passes
DimLists == { <<"Region", "Product">>, <<"Product", "Region">> }

\* key-sets (dimension, value pairs) of the blocks callers and strategies name
KeySets == { {<<"Region", "EU">>}, {<<"Product", "W">>},
             {<<"Region", "US">>, <<"Product", "G">>}, {} }

BlockTypes == {"MIX_AND_RATE"}

\* contribution scores (bps) the block aggregation derives for the rows a
\* key-set matches
Scores ==
  [k \in KeySets |->
     IF k = {<<"Region", "EU">>} THEN 0 - 50
     ELSE IF k = {<<"Product", "W">>} THEN 0 - 20
     ELSE 30]

\* arguments callers pass to AlgorithmParameters
AlgorithmInputs == {"TD", "BOGUS"}
ModeInputs == {CORRECT_MODES_default, "MUL"}
MarginInputs == {"GROSS", "UNKNOWN"}

\* ------------------------------------------------------- float arithmetic
\* Python floats are IEEE 754 binary64: sign * mant * 2^exp with a mantissa of
\* 53 bits, 2^52 <= mant < 2^53, every operation rounded to nearest, ties to
\* even. A mantissa does not fit a TLC integer: it is held as four limbs in
\* base Limb, least significant first, the top limb having TopBits bits.
\* Exponents stay far from the format's limits here: no overflow, underflow
\* or subnormal is modelled.
Abs(a) == IF a < 0 THEN 0 - a ELSE a

Max(a, b) == IF a < b THEN b ELSE a

Sign(n) == IF n < 0 THEN 0 - 1 ELSE IF n = 0 THEN 0 ELSE 1

\* 2^14, the base of the limbs
Limb == 16384

\* 2^10 and 2^11: the top limb t of a mantissa has TopMin <= t < TopMax
TopMin == 1024

TopMax == 2048

\* 52 = 3 * 14 + 10, the exponent that makes <<0, 0, 0, TopMin>> the value 1
MantissaShift == 52

FloatZero == [sign |-> 0, exp |-> 0, mant |-> << 0, 0, 0, 0 >>]

\* mant + 1 when up, with the sign and the exponent: the float a rounding ends in
Rounded(sign, exp, m, up) ==
  LET t1 == m[1] + (IF up THEN 1 ELSE 0)
      t2 == m[2] + (t1 \div Limb)
      t3 == m[3] + (t2 \div Limb)
      t4 == m[4] + (t3 \div Limb)
  IN IF t4 = TopMax
     THEN [sign |-> sign, exp |-> exp + 1, mant |-> << 0, 0, 0, TopMin >>]
     ELSE [sign |-> sign, exp |-> exp,
           mant |-> << t1 % Limb, t2 % Limb, t3 % Limb, t4 >>]

\* the least k with n * 2^k >= d, and the least k with n < d * 2^k
RECURSIVE ShiftUp(_, _)
ShiftUp(n, d) == IF n >= d THEN 0 ELSE 1 + ShiftUp(2 * n, d)

RECURSIVE ShiftDown(_, _)
ShiftDown(n, d) == IF n < d THEN 0 ELSE 1 + ShiftDown(n, 2 * d)

RECURSIVE Pow2(_)
Pow2(k) == IF k = 0 THEN 1 ELSE 2 * Pow2(k - 1)

\* n / d under true division for integer-valued n and d, 0 < |d| < Limb and
\* |n| < Limb: n / d = (a / b) * 2^e with b <= a < 2b, and the mantissa is
\* a * 2^52 \div b by long division, rounded on the remainder
FloatDiv(n, d) ==
  LET up == ShiftUp(Abs(n), Abs(d))
      down == IF up > 0 THEN 0 ELSE ShiftDown(Abs(n), Abs(d)) - 1
      a == Abs(n) * Pow2(up)
      b == Abs(d) * Pow2(down)
      t4 == a * TopMin
      t3 == (t4 % b) * Limb
      t2 == (t3 % b) * Limb
      t1 == (t2 % b) * Limb
      r == t1 % b
      m == << t1 \div b, t2 \div b, t3 \div b, t4 \div b >>
  IN IF n = 0 THEN FloatZero
     ELSE Rounded(Sign(n) * Sign(d), down - up - MantissaShift, m,
                  2 * r > b \/ (2 * r = b /\ m[1] % 2 = 1))

\* float(n), |n| < Limb
FloatOfInt(n) == FloatDiv(n, 1)

\* a * b: the eight limbs of the product of the mantissas, of 105 or 106 bits,
\* cut down to the top 53 and rounded on the bits cut off
FloatMul(a, b) ==
  LET x == a.mant
      y == b.mant
      c1 == x[1] * y[1]
      c2 == x[1] * y[2] + x[2] * y[1] + (c1 \div Limb)
      c3 == x[1] * y[3] + x[2] * y[2] + x[3] * y[1] + (c2 \div Limb)
      c4 == x[1] * y[4] + x[2] * y[3] + x[3] * y[2] + x[4] * y[1]
              + (c3 \div Limb)
      c5 == x[2] * y[4] + x[3] * y[3] + x[4] * y[2] + (c4 \div Limb)
      c6 == x[3] * y[4] + x[4] * y[3] + (c5 \div Limb)
      c7 == x[4] * y[4] + (c6 \div Limb)
      p == << c1 % Limb, c2 % Limb, c3 % Limb, c4 % Limb, c5 % Limb,
              c6 % Limb, c7 % Limb, c7 \div Limb, 0 >>
      \* 106 bits when the top limb has 8: cut 53 = 3 * 14 + 11 bits, else
      \* 52 = 3 * 14 + 10
      long == p[8] >= 128
      s == IF long THEN TopMax ELSE TopMin
      m == [i \in 1..4 |-> (p[i + 3] \div s) + (p[i + 4] % s) * (Limb \div s)]
      cut == p[4] % s
      half == s \div 2
      low == p[1] # 0 \/ p[2] # 0 \/ p[3] # 0
      up == cut > half \/ (cut = half /\ (low \/ m[1] % 2 = 1))
  IN IF a.sign = 0 \/ b.sign = 0 THEN FloatZero
     ELSE Rounded(a.sign * b.sign,
                  a.exp + b.exp + (IF long THEN 53 ELSE 52), m, up)

\* limb by limb on two mantissas (the top limb may exceed TopMax): the order,
\* the difference, the double and the quotient by a small number
LimbCmp(x, y) ==
  IF x[4] # y[4] THEN Sign(x[4] - y[4])
  ELSE IF x[3] # y[3] THEN Sign(x[3] - y[3])
  ELSE IF x[2] # y[2] THEN Sign(x[2] - y[2])
  ELSE Sign(x[1] - y[1])

\* x - y for x >= y
LimbSub(x, y) ==
  LET t1 == x[1] - y[1]
      t2 == x[2] - y[2] - (IF t1 < 0 THEN 1 ELSE 0)
      t3 == x[3] - y[3] - (IF t2 < 0 THEN 1 ELSE 0)
      t4 == x[4] - y[4] - (IF t3 < 0 THEN 1 ELSE 0)
  IN << t1 % Limb, t2 % Limb, t3 % Limb, t4 >>

LimbDouble(x) ==
  LET t1 == 2 * x[1]
      t2 == 2 * x[2] + (t1 \div Limb)
      t3 == 2 * x[3] + (t2 \div Limb)
  IN << t1 % Limb, t2 % Limb, t3 % Limb, 2 * x[4] + (t3 \div Limb) >>

\* x \div k, 0 < k < Limb
LimbDiv(x, k) ==
  LET t3 == (x[4] % k) * Limb + x[3]
      t2 == (t3 % k) * Limb + x[2]
      t1 == (t2 % k) * Limb + x[1]
  IN << t1 \div k, t2 \div k, t3 \div k, x[4] \div k >>

\* FloatEqScale = FloatEqRoot * FloatEqRoot
FloatEqRoot == 1000

\* float_eq on two floats: |p - c| * FloatEqScale <= max(|p|, |c|)
FloatNear(p, c) ==
  LET x == IF p.exp > c.exp THEN LimbDouble(p.mant) ELSE p.mant
      y == IF c.exp > p.exp THEN LimbDouble(c.mant) ELSE c.mant
      hi == IF LimbCmp(x, y) >= 0 THEN x ELSE y
      lo == IF LimbCmp(x, y) >= 0 THEN y ELSE x
  IN IF p.sign # c.sign THEN FALSE
     ELSE IF p.sign = 0 THEN TRUE
     ELSE IF Abs(p.exp - c.exp) > 1 THEN FALSE
     ELSE LimbCmp(LimbSub(hi, lo),
                  LimbDiv(LimbDiv(hi, FloatEqRoot), FloatEqRoot)) <= 0

\* ---------------------------------------------------------------- errors
NoError == [type |-> "none", at |-> "none", msg |-> << >>]

AssertionError(where) == [type |-> "AssertionError", at |-> where, msg |-> << >>]

\* mutant of UnknownAlgorithmMessage: the identifier is not formatted in
UnknownAlgorithmMessageBare(algorithm) == << "Unknown algorithm" >>

\* _("Unknown algorithm: \"{}\"").format(algorithm)
UnknownAlgorithmMessage(algorithm) == << "Unknown algorithm: \"", algorithm, "\"" >>

ValueError(message) == [type |-> "ValueError", at |-> "algorithm", msg |-> message]

\* raise NotImplemented(...): NotImplemented is not callable, so the raise
\* statement itself raises TypeError and the formatted text is lost
NotImplementedCall(message) ==
  [type |-> "TypeError", at |-> "correct_mode",
   msg |-> << "'NotImplementedType' object is not callable" >>]

\* ------------------------------------------------------- AlgorithmParameters
NoParams ==
  [kind |-> "none", algorithm |-> "", correct_mode |-> "", margin_type |-> "",
   max_block_number |-> 0, pre_selected_blocks |-> << >>, dims |-> << >>]

\* AlgorithmParameters.__init__: the error it raises, NoError when it returns
AlgorithmParametersError(margin_type, algorithm, correct_mode) ==
  IF margin_type \notin MARGIN_TYPES THEN AssertionError("margin_type")
  ELSE IF correct_mode \notin CORRECT_MODES THEN AssertionError("correct_mode")
  ELSE IF algorithm \notin ALGO_NAMES
       THEN ValueError(UnknownAlgorithmMessage(algorithm))
  ELSE NoError

VARIABLES
  pc,                   \* position of the caller: start, params, init, ready, running,
                        \* failed (an exception reached the caller, who stops)
  args,                 \* the arguments of the AlgorithmParameters call
  params,               \* the AlgorithmParameters object (kind "none" before it exists)
  df,                   \* self.df: the working table, a set of row numbers
  global_block,         \* self.global_block
  saved_global_block,   \* self.saved_global_block
  ratio_to_initial,     \* self.ratio_to_initial
  dims,                 \* self.dims
  pre_selected_blocks,  \* self.pre_selected_blocks
  blocks,               \* self.blocks
  index,                \* the loop variable i of __init__ and of run
  err,                  \* the exception that reached the caller last
  result,               \* what the last run() call returned or raised
  log,                  \* the lines written to log_file
  diag,                 \* the lines emitted through the module logger _l
  hist,                 \* history: the completed correction steps
  attempt,              \* history: the last block handed to correct_facts
  runs,                 \* history: number of run() calls
  calls,                \* history: find_next_block calls of the current run()
  exhausted             \* history: find_next_block returned no block in this run()

vars == << pc, args, params, df, global_block, saved_global_block,
           ratio_to_initial, dims, pre_selected_blocks, blocks, index, err,
           result, log, diag, hist, attempt, runs, calls, exhausted >>


\* ------------------------------------------------- aggregation collaborators
\* a row matches a key-set when it carries every (dimension, value) of it
Matches(r, keys) == \A kv \in keys : Facts[r][kv[1]] = kv[2]

RowsOf(table, keys) == { r \in table : Matches(r, keys) }

RECURSIVE SumOver(_, _)
SumOver(rows, field) ==
  IF rows = {} THEN 0
  ELSE LET r == CHOOSE x \in rows : TRUE
       IN Facts[r][field] + SumOver(rows \ {r}, field)

\* the contribution score of a block: nothing when no row matches
BlockScore(table, keys) == IF RowsOf(table, keys) = {} THEN 0 ELSE Scores[keys]

\* AlgoBlock(table, profit_meas, keys, block_type, parent): the aggregate of the
\* rows of table matching keys
AlgoBlock(table, keys, block_type, parent) ==
  [keys |-> keys, block_type |-> block_type, parent |-> parent,
   cur_revenue |-> SumOver(RowsOf(table, keys), "cur_revenue"),
   ref_revenue |-> SumOver(RowsOf(table, keys), "ref_revenue"),
   cur_profit |-> SumOver(RowsOf(table, keys), "cur_profit"),
   ref_profit |-> SumOver(RowsOf(table, keys), "ref_profit"),
   contrib_bps |-> BlockScore(table, keys)]

\* out_block(df, b): the rows of df that do not match b
out_block(table, b) == table \ RowsOf(table, b.keys)

\* utils.float_eq: equality within a relative tolerance of 1e-6
FloatEqScale == 1000000

float_eq(a, b) == Abs(a - b) * FloatEqScale <= Max(Abs(a), Abs(b))

\* SavedBlock.from_block: a copy of the block's fields
SavedBlock_from_block(b) ==
  [keys |-> b.keys, block_type |-> b.block_type,
   cur_revenue |-> b.cur_revenue, ref_revenue |-> b.ref_revenue,
   cur_profit |-> b.cur_profit, ref_profit |-> b.ref_profit,
   contrib_bps |-> FloatOfInt(b.contrib_bps)]

\* ------------------------------------------------------------ BaseAlgorithm
\* the parent of a block built with no parent argument
NoParent == 0 - 1

\* _make_global_block: the aggregate over a whole table; id tells the objects
\* apart (each call makes a new object)
make_global_block(table, id) ==
  [id |-> id,
   cur_revenue |-> SumOver(table, "cur_revenue"),
   ref_revenue |-> SumOver(table, "ref_revenue"),
   cur_profit |-> SumOver(table, "cur_profit"),
   ref_profit |-> SumOver(table, "ref_profit")]

SavedGlobalBlock(gb) ==
  [cur_revenue |-> gb.cur_revenue, ref_revenue |-> gb.ref_revenue,
   cur_profit |-> gb.cur_profit, ref_profit |-> gb.ref_profit]

\* make_block: a block over the current table whose parent is the current
\* global block
make_block(keys, block_type) ==
  AlgoBlock(df, keys, block_type, global_block.id)

\* number of distinct values of dimension d in a table: len(df[d].unique())
DistinctValues(table, d) == Cardinality({ Facts[r][d] : r \in table })

\* mutant of KeepDimension: a dimension needs more than two values to be kept
KeepDimensionStrict(table, d) == DistinctValues(table, d) > 2

KeepDimension(table, d) == DistinctValues(table, d) # 1

\* mutant of remove_unnecessary_dimensions: nothing is pruned
KeepEveryDimension(ds, table) == ds

\* __remove_unnecessary_dimensions: the dimensions kept, in order
remove_unnecessary_dimensions(ds, table) ==
  SelectSeq(ds, LAMBDA d : KeepDimension(table, d))

\* the lines __remove_unnecessary_dimensions logs
PruneLines(ds, table) ==
  LET dropped == SelectSeq(ds, LAMBDA d : ~KeepDimension(table, d))
  IN [k \in 1..Len(dropped) |-> [kind |-> "dim", dim |-> dropped[k]]]

\* mutant of ParentIsCurrent: the assertion is skipped
ParentUnchecked(b, gb) == TRUE

\* assert(b.parent == self.global_block)
ParentIsCurrent(b, gb) == b.parent = gb.id

\* mutant of ConservationFailure: the four assertions are skipped
ConservationUnchecked(next_gb, b, gb) == "none"

\* the four float_eq assertions of correct_facts, in order: the name of the
\* first that fails, "none" when all hold
ConservationFailure(next_gb, b, gb) ==
  IF ~float_eq(next_gb.cur_revenue + b.cur_revenue, gb.cur_revenue)
    THEN "cur_revenue"
  ELSE IF ~float_eq(next_gb.ref_revenue + b.ref_revenue, gb.ref_revenue)
    THEN "ref_revenue"
  ELSE IF ~float_eq(next_gb.cur_profit + b.cur_profit, gb.cur_profit)
    THEN "cur_profit"
  ELSE IF ~float_eq(next_gb.ref_profit + b.ref_profit, gb.ref_profit)
    THEN "ref_profit"
  ELSE "none"

\* mutant of NextRatio: the ratio is assigned, not multiplied in
NextRatioAssigned(ratio, next_revenue, old_revenue) ==
  FloatDiv(next_revenue, old_revenue)

\* mutant of NextRatio: the quotient is taken the wrong way round
NextRatioInverted(ratio, next_revenue, old_revenue) ==
  FloatMul(ratio, FloatDiv(old_revenue, next_revenue))

\* self.ratio_to_initial *= x, x = next_gb.cur_revenue / global_block.cur_revenue
NextRatio(ratio, next_revenue, old_revenue) ==
  FloatMul(ratio, FloatDiv(next_revenue, old_revenue))

\* mutant of RevenuePositive: zero revenue is let through
RevenueNotNegative(revenue) == revenue >= 0

\* assert(self.global_block.cur_revenue > 0), assert(next_gb.cur_revenue > 0)
RevenuePositive(revenue) == revenue > 0

\* mutant of ReplacedTable: self.df is not replaced
TableKept(table, next_df) == table

\* self.df = next_df
ReplacedTable(table, next_df) == next_df

\* mutant of ReplacedGlobalBlock: self.global_block is not replaced
GlobalBlockKept(gb, next_gb) == gb

\* self.global_block = next_gb
ReplacedGlobalBlock(gb, next_gb) == next_gb

\* correct_facts(b) in the state (mode, table, gb, ratio): the error raised and
\* the table, global block and ratio it leaves
correct_facts(b, mode, table, gb, ratio) ==
  LET unchanged(e) ==
        [err |-> e, df |-> table, global_block |-> gb, ratio_to_initial |-> ratio]
      next_df == out_block(table, b)
      next_gb == make_global_block(next_df, gb.id + 1)
      broken == ConservationFailure(next_gb, b, gb)
  IN IF ~ParentIsCurrent(b, gb) THEN unchanged(AssertionError("parent"))
     ELSE IF mode = "DEL" THEN
          IF broken # "none" THEN unchanged(AssertionError(broken))
          ELSE IF ~RevenuePositive(gb.cur_revenue)
            THEN unchanged(AssertionError("old_revenue"))
          ELSE IF ~RevenuePositive(next_gb.cur_revenue)
            THEN unchanged(AssertionError("new_revenue"))
          ELSE [err |-> NoError, df |-> ReplacedTable(table, next_df),
                global_block |-> ReplacedGlobalBlock(gb, next_gb),
                ratio_to_initial |->
                  NextRatio(ratio, next_gb.cur_revenue, gb.cur_revenue)]
     ELSE unchanged(NotImplementedCall(
            << "Correction method ", mode, " is not implemented" >>))

\* sb.contrib_bps = b.contrib_bps * self.ratio_to_initial
ScaledContrib(b, ratio) == FloatMul(FloatOfInt(b.contrib_bps), ratio)

\* mutant of CaptureRatio: the contribution is scaled after the correction
CaptureRatioAfter(before, after) == after

\* the ratio that scales the saved contribution: sb.contrib_bps is set before
\* correct_facts(b) updates self.ratio_to_initial
CaptureRatio(before, after) == before

\* the _l.info line of __apply_and_save_block
BlockLine(i, sb, ratio) ==
  [kind |-> "block", index |-> i, contrib_bps |-> sb.contrib_bps,
   ratio |-> ratio, keys |-> sb.keys]

\* mutant of AppendSaved: the saved block is appended before correct_facts
AppendSavedFirst(blist, sb, ok) == Append(blist, sb)

\* self.correct_facts(b) then blist.append(sb): the list after the call, ok
\* telling whether correct_facts returned
AppendSaved(blist, sb, ok) == IF ok THEN Append(blist, sb) ELSE blist

\* __apply_and_save_block(b, blist, index), blist being self.pre_selected_blocks
\* (which = "pre") or self.blocks (which = "blocks"). The line is logged before
\* correct_facts runs; when correct_facts raises nothing else has changed.
apply_and_save_block(b, which, i) ==
  LET out == correct_facts(b, params.correct_mode, df, global_block,
                           ratio_to_initial)
      sb == [SavedBlock_from_block(b) EXCEPT
               !.contrib_bps =
                 ScaledContrib(b, CaptureRatio(ratio_to_initial,
                                               out.ratio_to_initial))]
      ok == out.err = NoError
      line == BlockLine(i, sb, ratio_to_initial)
  IN /\ attempt' = [n |-> attempt.n + 1, block |-> b]
     /\ df' = out.df
     /\ global_block' = out.global_block
     /\ ratio_to_initial' = out.ratio_to_initial
     /\ pre_selected_blocks' =
          IF which = "pre" THEN AppendSaved(pre_selected_blocks, sb, ok)
          ELSE pre_selected_blocks
     /\ blocks' = IF which = "blocks" THEN AppendSaved(blocks, sb, ok)
                  ELSE blocks
     /\ dims' = IF ok THEN remove_unnecessary_dimensions(dims, out.df) ELSE dims
     /\ diag' = IF ok THEN Append(diag, line) \o PruneLines(dims, out.df)
                ELSE Append(diag, line)
     /\ hist' = IF ok
                THEN Append(hist, [block |-> b, old |-> global_block,
                                   new |-> out.global_block, table |-> df,
                                   list |-> which])
                ELSE hist
     /\ err' = IF ok THEN err ELSE out.err

\* --------------------------------------------------------------- the calls
NoBlock ==
  [keys |-> {}, block_type |-> "", parent |-> NoParent, cur_revenue |-> 0,
   ref_revenue |-> 0, cur_profit |-> 0, ref_profit |-> 0, contrib_bps |-> 0]

NoGlobalBlock ==
  [id |-> NoParent, cur_revenue |-> 0, ref_revenue |-> 0, cur_profit |-> 0,
   ref_profit |-> 0]

NoResult == [kind |-> "none", err |-> NoError, dims |-> << >>,
             global_block |-> SavedGlobalBlock(NoGlobalBlock),
             blocks |-> << >>, first_blocks |-> << >>]

Raised(e) == [NoResult EXCEPT !.kind = "raised", !.err = e]

\* mutant of WaterfallDims: the pruned working list is handed out
WaterfallDimsPruned == dims

\* dims = self.params.input_parameters.dims
WaterfallDims == params.dims

\* mutant of WaterfallGlobalBlock: the current global block is handed out
WaterfallGlobalBlockCurrent == SavedGlobalBlock(global_block)

\* global_block = self.saved_global_block
WaterfallGlobalBlock == saved_global_block

\* the Waterfall run() returns (title and period labels left out)
Waterfall ==
  [kind |-> "waterfall", err |-> NoError, dims |-> WaterfallDims,
   global_block |-> WaterfallGlobalBlock, blocks |-> blocks,
   first_blocks |-> pre_selected_blocks]

\* the pre-selected block lists a caller passes
RECURSIVE SeqsUpTo(_, _)
SeqsUpTo(S, n) ==
  IF n = 0 THEN { << >> }
  ELSE LET shorter == SeqsUpTo(S, n - 1)
       IN shorter \cup { Append(q, x) : q \in shorter, x \in S }

PreSelectedInputs ==
  SeqsUpTo([keys : KeySets, block_type : BlockTypes], MaxPreSelected)

\* mutant of FirstIndex: the first index is one too high
FirstIndexOffByOne(k) == 0 - k

\* i = -len(params.pre_selected_blocks) - 1
FirstIndex(k) == 0 - k - 1

\* mutant of InRange: the loop runs once more
InRangeInclusive(i, max_block_number) == i <= max_block_number

\* for i in range(0, max_block_number): the loop body runs for index i
InRange(i, max_block_number) == i < max_block_number

\* assert(not(self.blocks))
RunGuard(blist) == blist = << >>

Init ==
  /\ pc = "start"
  /\ args = [margin_type |-> "", algorithm |-> "", correct_mode |-> "",
             dims |-> << >>]
  /\ params = NoParams
  /\ df = {}
  /\ global_block = NoGlobalBlock
  /\ saved_global_block = SavedGlobalBlock(NoGlobalBlock)
  /\ ratio_to_initial = FloatOfInt(1)
  /\ dims = << >>
  /\ pre_selected_blocks = << >>
  /\ blocks = << >>
  /\ index = 0
  /\ err = NoError
  /\ result = NoResult
  /\ log = << >>
  /\ diag = << >>
  /\ hist = << >>
  /\ attempt = [n |-> 0, block |-> NoBlock]
  /\ runs = 0
  /\ calls = 0
  /\ exhausted = FALSE

\* AlgorithmParameters(...)
NewAlgorithmParameters ==
  /\ pc = "start"
  /\ \E margin_type \in MarginInputs, algorithm \in AlgorithmInputs,
        correct_mode \in ModeInputs, pre \in PreSelectedInputs,
        max_block_number \in 0..MaxBlockNumber, ds \in DimLists :
       LET e == AlgorithmParametersError(margin_type, algorithm, correct_mode)
       IN /\ args' = [margin_type |-> margin_type, algorithm |-> algorithm,
                      correct_mode |-> correct_mode, dims |-> ds]
          /\ err' = e
          /\ IF e = NoError
             THEN /\ params' = [kind |-> "params", algorithm |-> algorithm,
                                correct_mode |-> correct_mode,
                                margin_type |-> margin_type,
                                max_block_number |-> max_block_number,
                                pre_selected_blocks |-> pre, dims |-> ds]
                  /\ pc' = "params"
             ELSE /\ params' = params
                  /\ pc' = "failed"
  /\ UNCHANGED << df, global_block, saved_global_block, ratio_to_initial, dims,
                  pre_selected_blocks, blocks, index, result, log, diag, hist,
                  attempt, runs, calls, exhausted >>

\* BaseAlgorithm(params, df) up to the loop over the pre-selected blocks
NewBaseAlgorithm ==
  /\ pc = "params"
  /\ \E table \in InitialTables :
       IF params.correct_mode \notin CORRECT_MODES
       THEN /\ err' = AssertionError("correct_mode")
            /\ pc' = "failed"
            /\ UNCHANGED << df, global_block, saved_global_block, dims, diag,
                            index >>
       ELSE /\ df' = table
            /\ global_block' = make_global_block(table, 0)
            /\ saved_global_block' = SavedGlobalBlock(make_global_block(table, 0))
            /\ dims' = remove_unnecessary_dimensions(params.dims, table)
            /\ diag' = diag \o PruneLines(params.dims, table)
            /\ index' = FirstIndex(Len(params.pre_selected_blocks))
            /\ pc' = IF params.pre_selected_blocks = << >> THEN "ready" ELSE "init"
            /\ err' = err
  /\ ratio_to_initial' = FloatOfInt(1)
  /\ pre_selected_blocks' = << >>
  /\ blocks' = << >>
  /\ UNCHANGED << args, params, result, log, hist, attempt, runs, calls,
                  exhausted >>

\* one iteration of the loop of __init__ over params.pre_selected_blocks
PreSelectedStep ==
  /\ pc = "init"
  /\ LET ib == params.pre_selected_blocks[Len(pre_selected_blocks) + 1]
         b == make_block(ib.keys, ib.block_type)
         i == index + 1
         ok == correct_facts(b, params.correct_mode, df, global_block,
                             ratio_to_initial).err = NoError
     IN /\ apply_and_save_block(b, "pre", i)
        /\ index' = i
        /\ pc' = IF ~ok THEN "failed"
                 ELSE IF Len(pre_selected_blocks) + 1
                           = Len(params.pre_selected_blocks)
                      THEN "ready" ELSE "init"
  /\ UNCHANGED << args, params, saved_global_block, result, log, runs, calls,
                  exhausted >>

\* if log_file and self.log_file_caption(): the caption is written
CaptionWritten(log_file, caption) == log_file /\ caption

\* mutant of run_start: the guard is only evaluated when a log file is given
run_start_guard_with_log(log_file, caption) ==
  IF log_file /\ ~RunGuard(blocks)
  THEN [err |-> AssertionError("blocks"), result |-> Raised(AssertionError("blocks")),
        pc |-> "failed", log |-> log, index |-> index]
  ELSE [err |-> err, result |-> NoResult, pc |-> "running",
        log |-> IF CaptionWritten(log_file, caption)
                THEN Append(log, "caption") ELSE log,
        index |-> 0]

\* run(log_file) up to its loop, log_file telling whether a log file is given
\* and caption whether the strategy has a caption: what it leaves
run_start(log_file, caption) ==
  IF ~RunGuard(blocks)
  THEN [err |-> AssertionError("blocks"), result |-> Raised(AssertionError("blocks")),
        pc |-> "failed", log |-> log, index |-> index]
  ELSE [err |-> err, result |-> NoResult, pc |-> "running",
        log |-> IF CaptionWritten(log_file, caption)
                THEN Append(log, "caption") ELSE log,
        index |-> 0]

\* run(log_file) up to its loop: the guard and the caption
RunStart ==
  /\ pc = "ready"
  /\ runs < MaxRuns
  /\ runs' = runs + 1
  /\ calls' = 0
  /\ exhausted' = FALSE
  /\ \E log_file \in BOOLEAN, caption \in BOOLEAN :
       LET out == run_start(log_file, caption)
       IN /\ err' = out.err
          /\ result' = out.result
          /\ pc' = out.pc
          /\ log' = out.log
          /\ index' = out.index
  /\ UNCHANGED << args, params, df, global_block, saved_global_block,
                  ratio_to_initial, dims, pre_selected_blocks, blocks, diag,
                  hist, attempt >>

\* a loop iteration in which find_next_block finds no block: run() returns
RunNoBlock ==
  /\ pc = "running"
  /\ InRange(index, params.max_block_number)
  /\ calls' = calls + 1
  /\ exhausted' = TRUE
  /\ diag' = Append(diag, [kind |-> "noblock", index |-> index])
  /\ result' = Waterfall
  /\ pc' = "ready"
  /\ UNCHANGED << args, params, df, global_block, saved_global_block,
                  ratio_to_initial, dims, pre_selected_blocks, blocks, index,
                  err, log, hist, attempt, runs >>

\* the tables a strategy may still hold from before: the table the instance
\* started from, once a correction has replaced it
StaleTables == IF hist = << >> THEN {} ELSE { hist[1].table }

\* the blocks a strategy may hand back: aggregated over the current table or a
\* stale one, with the current global block or the one before it (none before
\* the first) as parent
StrategyBlocks ==
  { AlgoBlock(t, k, bt, p) :
      t \in {df} \cup StaleTables, k \in KeySets, bt \in BlockTypes,
      p \in {global_block.id, global_block.id - 1} }

\* mutant of NextIndex: the loop steps by two
NextIndexSkips(i) == i + 2

\* for i in range(0, max_block_number): the index of the next iteration
NextIndex(i) == i + 1

\* a loop iteration in which find_next_block returns a block
RunBlock ==
  /\ pc = "running"
  /\ InRange(index, params.max_block_number)
  /\ calls' = calls + 1
  /\ \E b \in StrategyBlocks :
       LET ok == correct_facts(b, params.correct_mode, df, global_block,
                               ratio_to_initial).err = NoError
       IN /\ apply_and_save_block(b, "blocks", index)
          /\ IF ok
             THEN /\ index' = NextIndex(index)
                  /\ pc' = "running"
                  /\ result' = result
             ELSE /\ index' = index
                  /\ pc' = "failed"
                  /\ result' = Raised(correct_facts(b, params.correct_mode, df,
                                        global_block, ratio_to_initial).err)
  /\ UNCHANGED << args, params, saved_global_block, log, runs, exhausted >>

\* the loop of run() is over: run() returns the Waterfall
RunReturn ==
  /\ pc = "running"
  /\ ~InRange(index, params.max_block_number)
  /\ result' = Waterfall
  /\ pc' = "ready"
  /\ UNCHANGED << args, params, df, global_block, saved_global_block,
                  ratio_to_initial, dims, pre_selected_blocks, blocks, index,
                  err, log, diag, hist, attempt, runs, calls, exhausted >>

Next ==
  \/ NewAlgorithmParameters
  \/ NewBaseAlgorithm
  \/ PreSelectedStep
  \/ RunStart
  \/ RunNoBlock
  \/ RunBlock
  \/ RunReturn

Spec == Init /\ [][Next]_vars

\* run() is a synchronous loop: an iteration that can run does run
FairSpec == Spec /\ WF_vars(RunNoBlock \/ RunBlock \/ RunReturn)

\* ------------------------------------------------------------- properties
Measures == {"cur_revenue", "ref_revenue", "cur_profit", "ref_profit"}

\* the saved blocks in the order they were applied
Applied == pre_selected_blocks \o blocks

\* the product of new.cur_revenue / old.cur_revenue over the first n completed
\* correction steps
RECURSIVE RatioProduct(_)
RatioProduct(n) ==
  IF n = 0 THEN FloatOfInt(1)
  ELSE FloatMul(RatioProduct(n - 1),
                FloatDiv(hist[n].new.cur_revenue, hist[n].old.cur_revenue))

\* the last block handed to correct_facts did not complete its correction
LastAttemptFailed == attempt.n > Len(hist)

\* C1: every completed correction step conserves the four measures (new global
\* aggregate + block = old global aggregate, as float_eq compares them), and a
\* step that does not is fatal: it raises and is never recorded as completed.
C1_Conservation ==
  /\ \A k \in 1..Len(hist) : \A m \in Measures :
       float_eq(hist[k].new[m] + hist[k].block[m], hist[k].old[m])
  /\ attempt.n <= Len(hist) + 1
  /\ LastAttemptFailed => pc = "failed" /\ err.type # "none"

\* a completed step was followed by a block that broke conservation
C1_Witness ==
  /\ Len(hist) >= 1
  /\ hist[1].block.cur_revenue > 0
  /\ pc = "failed"
  /\ err \in { AssertionError(m) : m \in Measures }

\* C2: the k-th saved block records raw contribution times the product of the
\* ratios of the k-1 corrections before it (the ratio before its own correction).
C2_ScaledContribution ==
  /\ Len(Applied) = Len(hist)
  /\ \A k \in 1..Len(hist) :
       Applied[k].contrib_bps =
         FloatMul(FloatOfInt(hist[k].block.contrib_bps), RatioProduct(k - 1))

\* raw -50 then raw -20 after a first-step ratio of 7/10: saved -50 and -14
C2_Witness ==
  /\ Len(blocks) = 2
  /\ hist[1].block.contrib_bps = 0 - 50
  /\ hist[2].block.contrib_bps = 0 - 20
  /\ RatioProduct(1) = FloatDiv(7, 10)
  /\ blocks[1].contrib_bps = FloatOfInt(0 - 50)
  /\ blocks[2].contrib_bps = FloatOfInt(0 - 14)

\* C3: ratio_to_initial is 1 before any correction and always the product of the
\* per-step ratios of the completed corrections (so only a completed correction
\* changes it).
C3_RatioComposition ==
  /\ ratio_to_initial = RatioProduct(Len(hist))
  /\ hist = << >> => ratio_to_initial = FloatOfInt(1)

\* two corrections, of ratios 7/10 and 4/7
C3_Witness ==
  /\ Len(hist) = 2
  /\ hist[1].old.cur_revenue = 10 /\ hist[1].new.cur_revenue = 7
  /\ hist[2].old.cur_revenue = 7 /\ hist[2].new.cur_revenue = 4
  /\ ratio_to_initial = FloatMul(FloatDiv(7, 10), FloatDiv(4, 7))

\* C4: once construction has pruned, and after every apply-and-save, no tracked
\* dimension has exactly one distinct value in the working table.
C4_NoSingletonDimension ==
  pc \in {"init", "ready", "running", "failed"} =>
    \A k \in 1..Len(dims) : DistinctValues(df, dims[k]) # 1

\* removing Region=EU from the full table leaves one Region, which is pruned
C4_Witness ==
  /\ Len(hist) = 1
  /\ hist[1].table = {1, 2, 3, 4}
  /\ DistinctValues(hist[1].table, "Region") = 2
  /\ DistinctValues(df, "Region") = 1
  /\ dims = << "Product" >>

\* the invariant part of C5
C5_Bounds ==
  /\ pc = "running" => calls = index /\ index <= params.max_block_number
  /\ calls <= params.max_block_number
  /\ Len(blocks) <= params.max_block_number
  /\ result.kind = "waterfall" =>
       (Len(result.blocks) < params.max_block_number <=> exhausted)
  /\ exhausted => result.kind = "waterfall" /\ pc = "ready"

\* C5: run() with max_block_number = N ends after at most N find_next_block
\* calls and with at most N discovered blocks; a Waterfall with fewer than N
\* blocks is returned exactly when find_next_block found no block, and that
\* is a normal return.
C5_Termination ==
  /\ []C5_Bounds
  /\ (pc = "running") ~> (pc \in {"ready", "failed"})

\* after one pre-selected block, a run with N = 2 returns one block because the
\* strategy found no second one
C5_Witness ==
  /\ result.kind = "waterfall"
  /\ exhausted
  /\ params.max_block_number = 2
  /\ Len(result.blocks) = 1
  /\ Len(result.first_blocks) = 1

\* C6: a second run() call on the same instance fails before doing any work.
C6_SecondRunFails ==
  runs >= 2 => pc = "failed" /\ result.kind = "raised" /\ calls = 0

\* the block lines the loop of __init__ logged
PreLines == SelectSeq(diag, LAMBDA l : l.kind = "block" /\ l.index < 0)

\* C7: the k pre-selected key-sets are applied in input order under the indices
\* -k .. -1, the pre-selected list holds them in that order, and each is
\* aggregated over the table, and against the global block, left by the
\* correction of the one before it.
C7_PreSelectionOrder ==
  LET given == params.pre_selected_blocks
      k == Len(given)
  IN /\ Len(pre_selected_blocks) <= k
     /\ Len(PreLines) <= k
     /\ \A j \in 1..Len(PreLines) :
          PreLines[j].index = j - k - 1 /\ PreLines[j].keys = given[j].keys
     /\ pc \in {"ready", "running"} =>
          Len(pre_selected_blocks) = k /\ Len(PreLines) = k
     /\ \A j \in 1..Len(pre_selected_blocks) :
          LET h == hist[j]
              sb == pre_selected_blocks[j]
          IN /\ h.list = "pre"
             /\ sb.keys = given[j].keys
             /\ sb.block_type = given[j].block_type
             /\ h.block.parent = h.old.id
             /\ h.old = IF j = 1 THEN make_global_block(h.table, 0)
                        ELSE hist[j - 1].new
             /\ j > 1 => h.table = out_block(hist[j - 1].table, hist[j - 1].block)
             /\ \A m \in Measures :
                  sb[m] = SumOver(RowsOf(h.table, given[j].keys), m)

\* Region=EU then Product=W over the full table: the second block holds the
\* revenue of the US row alone
C7_Witness ==
  /\ pc = "ready"
  /\ Len(pre_selected_blocks) = 2
  /\ hist[1].table = {1, 2, 3, 4}
  /\ pre_selected_blocks[1].keys = {<<"Region", "EU">>}
  /\ pre_selected_blocks[2].keys = {<<"Product", "W">>}
  /\ pre_selected_blocks[2].cur_revenue = 3
  /\ PreLines[1].index = 0 - 2
  /\ PreLines[2].index = 0 - 1

\* C8: a block whose parent is not the current global block makes the
\* correction step fail on the parent assertion, whatever else is wrong with
\* it, and leaves the instance as it was.
C8_StaleParentGuard ==
  [][ (attempt'.n # attempt.n /\ attempt'.block.parent # global_block.id) =>
        /\ err' = AssertionError("parent")
        /\ pc' = "failed"
        /\ UNCHANGED << df, global_block, ratio_to_initial, dims,
                        pre_selected_blocks, blocks, hist >> ]_vars

\* a block built against the superseded global block, which would also break
\* conservation, was refused on its parent
C8_Witness ==
  /\ pc = "failed"
  /\ err = AssertionError("parent")
  /\ Len(hist) >= 1
  /\ attempt.block.parent = hist[Len(hist)].old.id
  /\ ConservationFailure(
       make_global_block(out_block(df, attempt.block), global_block.id + 1),
       attempt.block, global_block) # "none"

Contains(message, text) == \E k \in 1..Len(message) : message[k] = text

\* C9: a correction mode other than DEL is accepted by the configuration, and
\* a correction step under it fails with a not-implemented error naming it.
C9_UnimplementedMode ==
  /\ ( /\ pc # "start"
       /\ args.correct_mode # "DEL"
       /\ args.margin_type \in MARGIN_TYPES
       /\ args.algorithm \in ALGO_NAMES ) => params.kind = "params"
  /\ (LastAttemptFailed /\ params.correct_mode # "DEL"
        /\ attempt.block.parent = global_block.id) =>
       err.type = "NotImplementedError" /\ Contains(err.msg, params.correct_mode)

\* C10 as stated: an unrecognized algorithm identifier always fails with an
\* error whose message contains it, and no object is produced.
C10_UnknownAlgorithmNamed ==
  (pc # "start" /\ args.algorithm \notin ALGO_NAMES) =>
    /\ pc = "failed"
    /\ params.kind = "none"
    /\ Contains(err.msg, args.algorithm)

\* C10, amended: an unrecognized algorithm identifier always fails and produces
\* no object; the error is the ValueError whose message contains the identifier
\* when the margin type and the correction mode are recognized (their
\* assertions come first and carry no message).
C10_UnknownAlgorithmAmended ==
  (pc # "start" /\ args.algorithm \notin ALGO_NAMES) =>
    /\ pc = "failed"
    /\ params.kind = "none"
    /\ IF args.margin_type \in MARGIN_TYPES /\ args.correct_mode \in CORRECT_MODES
       THEN err.type = "ValueError" /\ Contains(err.msg, args.algorithm)
       ELSE err.type = "AssertionError" /\ ~Contains(err.msg, args.algorithm)

\* algorithm = "BOGUS" with a recognized margin type and correction mode
C10_Witness ==
  /\ pc = "failed"
  /\ args.algorithm = "BOGUS"
  /\ args.margin_type \in MARGIN_TYPES
  /\ args.correct_mode \in CORRECT_MODES
  /\ err.type = "ValueError"
  /\ Contains(err.msg, "BOGUS")

\* the global block correct_facts would compute for block b in this state
NextGlobalBlock(b) == make_global_block(out_block(df, b), global_block.id + 1)

\* the instance's fields a correction replaces or an apply-and-save extends
Residual == << df, global_block, ratio_to_initial, dims, pre_selected_blocks,
               blocks >>

\* C11: a correction step whose old or new global current revenue is not
\* strictly positive fails on an assertion and replaces nothing; so does a
\* block that matches every remaining row.
C11_PositiveRevenueGuard ==
  [][ ( /\ attempt'.n # attempt.n
        /\ \/ global_block.cur_revenue <= 0
           \/ NextGlobalBlock(attempt'.block).cur_revenue <= 0
           \/ RowsOf(df, attempt'.block.keys) = df ) =>
        /\ pc' = "failed"
        /\ err'.type = "AssertionError"
        /\ UNCHANGED Residual ]_vars

\* a block with the current parent that matches the whole remaining table,
\* after one completed correction, was refused on the new revenue
C11_Witness ==
  /\ pc = "failed"
  /\ err = AssertionError("new_revenue")
  /\ Len(hist) >= 1
  /\ attempt.block.parent = global_block.id
  /\ RowsOf(df, attempt.block.keys) = df
  /\ global_block.cur_revenue > 0

Range(seq) == { seq[k] : k \in 1..Len(seq) }

\* C12: the Configuration's dimension list stays the list the caller passed,
\* whatever is pruned from the working list, and the Waterfall carries it.
C12_ConfigDimsUntouched ==
  /\ params.kind = "params" => params.dims = args.dims
  /\ result.kind = "waterfall" => result.dims = args.dims
  /\ Range(dims) \subseteq Range(params.dims)

\* a Waterfall returned after a correction pruned a dimension
C12_Witness ==
  /\ result.kind = "waterfall"
  /\ Len(hist) >= 1
  /\ Len(dims) < Len(args.dims)
  /\ result.dims = args.dims
  /\ Len(result.dims) = 2

\* C13: whether a log file is given changes nothing but the text written to it:
\* from every state in which run() can be called, the call with a log file and
\* the call without one leave the same state apart from the log, the call
\* without one writes nothing, and the loop of run() never touches the log.
C13_LogSinkIndependence ==
  /\ pc = "ready" =>
       \A caption \in BOOLEAN :
         LET with == run_start(TRUE, caption)
             without == run_start(FALSE, caption)
         IN /\ [with EXCEPT !.log = << >>] = [without EXCEPT !.log = << >>]
            /\ without.log = log
  /\ Len(log) <= runs

\* a run given a log file and a caption returned a Waterfall with a block
C13_Witness ==
  /\ result.kind = "waterfall"
  /\ log = << "caption" >>
  /\ Len(result.blocks) >= 1

\* the working tables of the run, in order: the one each completed correction
\* step started from, then the current one
Tables == [k \in 1..(Len(hist) + 1) |->
             IF k <= Len(hist) THEN hist[k].table ELSE df]

\* C14: the working table narrows monotonically: after every correction step
\* the new table's rows are a subset of the previous table's rows, and no row
\* matching an applied block is in the working table at any later step.
C14_TableNarrows ==
  \A k \in 1..Len(hist) :
    /\ Tables[k + 1] \subseteq Tables[k]
    /\ \A j \in (k + 1)..(Len(hist) + 1) :
         /\ Tables[j] \cap RowsOf(Tables[k], hist[k].block.keys) = {}
         /\ RowsOf(Tables[j], hist[k].block.keys) = {}

\* two correction steps each removed rows, and the rows of the first block
\* are still absent after the second
C14_Witness ==
  /\ Len(hist) >= 2
  /\ RowsOf(Tables[1], hist[1].block.keys) # {}
  /\ RowsOf(Tables[2], hist[2].block.keys) # {}
  /\ Tables[3] # Tables[2] /\ Tables[2] # Tables[1]
  /\ df = Tables[3]

\* the Global Aggregate over the full initial fact table, as __init__ saves it
InitialSavedGlobalBlock == SavedGlobalBlock(make_global_block(Tables[1], 0))

\* C15: the Global Aggregate snapshot of the Result is the one computed over
\* the full initial fact table at construction, and no correction step, which
\* replaces the current Global Aggregate, changes the saved one.
C15_InitialSnapshot ==
  /\ global_block.id >= 0 => saved_global_block = InitialSavedGlobalBlock
  /\ result.kind = "waterfall" => result.global_block = InitialSavedGlobalBlock

\* a Result after two correction steps: its snapshot has the initial revenue
\* 10 while the current Global Aggregate has less
C15_Witness ==
  /\ result.kind = "waterfall"
  /\ Len(hist) >= 2
  /\ result.global_block.cur_revenue = 10
  /\ global_block.cur_revenue < 10
  /\ result.global_block # SavedGlobalBlock(global_block)

\* a step that ran __remove_unnecessary_dimensions: the construction, or a
\* completed apply-and-save
Pruned == (pc = "params" /\ pc' = "init") \/ Len(hist') = Len(hist) + 1

\* the dimensions tracked when that pruning started
TrackedBefore == IF pc = "params" THEN params.dims ELSE dims

\* C16: pruning is a pure filter over the current working table: the tracked
\* set it leaves is exactly the previously tracked dimensions whose number of
\* distinct values in the current table is not one, whatever the order in
\* which the dimensions are listed; pruning again on the same table changes
\* nothing; and no step adds a dimension, so the tracked set only shrinks and
\* stays within the Configuration's dimension list.
C16_PruningIsFilter ==
  [][ /\ Pruned =>
           /\ Range(dims') =
                { d \in Range(TrackedBefore) : DistinctValues(df', d) # 1 }
           /\ \A ds \in DimLists :
                Range(ds) = Range(TrackedBefore) =>
                  Range(remove_unnecessary_dimensions(ds, df')) = Range(dims')
           /\ remove_unnecessary_dimensions(dims', df') = dims'
      /\ pc # "params" => Range(dims') \subseteq Range(dims)
      /\ Range(dims') \subseteq Range(params'.dims) ]_vars

\* construction kept both dimensions and a later step pruned one of them
C16_Witness ==
  /\ Len(hist) >= 1
  /\ Len(params.dims) = 2
  /\ DistinctValues(hist[1].table, "Region") = 2
  /\ DistinctValues(hist[1].table, "Product") = 2
  /\ Len(dims) = 1
  /\ DistinctValues(df, dims[1]) = 2

\* the sum of one measure over a list of Saved Blocks
RECURSIVE SumSaved(_, _)
SumSaved(list, m) ==
  IF list = << >> THEN 0 ELSE list[1][m] + SumSaved(Tail(list), m)

FailedStep == attempt'.n # attempt.n /\ Len(hist') = Len(hist)

\* C19: when the correction step for a submitted block fails, the working
\* table, the Global Aggregate, ratio_to_initial, the tracked dimensions and
\* both block lists are as they were before the block was submitted, the
\* failure reaches the caller, the strategy is not invoked again and run()
\* returns no Result; a mode other than DEL fails the step the same way.
C19_FailureAtomicity ==
  [][ /\ FailedStep =>
           /\ UNCHANGED Residual
           /\ UNCHANGED saved_global_block
           /\ err'.type # "none"
           /\ pc' = "failed"
           /\ result'.kind # "waterfall"
           /\ pc = "running" => result' = Raised(err')
      /\ LastAttemptFailed => calls' = calls /\ result' = result
      /\ \A b \in StrategyBlocks : \A mode \in ModeInputs \ CORRECT_MODES :
           LET out == correct_facts(b, mode, df, global_block, ratio_to_initial)
           IN /\ out.err.type # "none"
              /\ out.df = df
              /\ out.global_block = global_block
              /\ out.ratio_to_initial = ratio_to_initial ]_vars

\* the second discovered block broke conservation or the revenue guard: the
\* first stays saved alone and run() raised
C19_Witness ==
  /\ pc = "failed"
  /\ result.kind = "raised"
  /\ attempt.n = Len(hist) + 1
  /\ Len(blocks) = 1
  /\ calls = 2
  /\ attempt.block.parent = global_block.id
  /\ err.type = "AssertionError"

\* a step in which run() calls find_next_block
StrategyInvoked == calls' = calls + 1

\* C20: within run() the strategy is invoked with the indices 0, 1, 2, ... in
\* order and without gaps, the index passed is the number of blocks in the
\* discovered list, every block returned before has been saved, corrected and
\* followed by a pruning, and the strategy is not invoked again once it has
\* found no block.
C20_StrategyInvocations ==
  [][ StrategyInvoked =>
        /\ index = calls
        /\ index = Len(blocks)
        /\ ~exhausted
        /\ ~LastAttemptFailed
        /\ Len(hist) = Len(Applied)
        /\ \A k \in 1..Len(blocks) :
             /\ hist[Len(pre_selected_blocks) + k].list = "blocks"
             /\ blocks[k].keys = hist[Len(pre_selected_blocks) + k].block.keys
        /\ \A k \in 1..Len(dims) : DistinctValues(df, dims[k]) # 1
        /\ (blocks' # blocks => index' = Len(blocks')) ]_vars

\* the strategy was invoked with 0 and with 1 and returned a block each time,
\* both applied
C20_Witness ==
  /\ calls = 2
  /\ index = 2
  /\ Len(blocks) = 2
  /\ Len(hist) = Len(Applied)
  /\ ~exhausted

\* ratio_to_initial * the initial Global Aggregate's current revenue
RevenueFromRatio ==
  FloatMul(ratio_to_initial, FloatOfInt(saved_global_block.cur_revenue))

\* C18 as stated: after at least one completed correction step the current
\* revenue and ratio_to_initial are strictly positive and ratio_to_initial
\* times the initial current revenue equals the current one.
C18_TelescopedRevenue ==
  Len(hist) >= 1 =>
    /\ global_block.cur_revenue > 0
    /\ ratio_to_initial.sign = 1
    /\ RevenueFromRatio = FloatOfInt(global_block.cur_revenue)

\* C18 amended: after at least one completed correction step the current
\* revenue and ratio_to_initial are strictly positive and ratio_to_initial
\* times the initial current revenue equals the current one up to the
\* rounding of the float operations: within the relative tolerance of
\* float_eq, not always exactly.
C18_TelescopedWithinRounding ==
  Len(hist) >= 1 =>
    /\ global_block.cur_revenue > 0
    /\ ratio_to_initial.sign = 1
    /\ FloatNear(RevenueFromRatio, FloatOfInt(global_block.cur_revenue))

\* revenue 10, then 7, then 4: (7/10) * (4/7) * 10 is the float just below 4
C18_Witness ==
  /\ Len(hist) = 2
  /\ saved_global_block.cur_revenue = 10
  /\ hist[2].old.cur_revenue = 7
  /\ global_block.cur_revenue = 4
  /\ RevenueFromRatio # FloatOfInt(4)
  /\ RevenueFromRatio.exp = FloatOfInt(4).exp - 1

====
